---- MODULE Spec2Model ----
(***************************************************************************)
(* Model of mimiclabs/envs/objects/generated_objects.py: the two           *)
(* procedurally generated composite objects Bin and MugTree.               *)
(*                                                                         *)
(* Lengths are integers counting quarter-millimetres (0.05 m = 200), and   *)
(* every input length is a multiple of 5 mm, so that each "/ 2" and the    *)
(* one "/ 2 * 0.5" of the source is exact.  The arithmetic of the source   *)
(* is therefore modelled over the rationals; the rounding of IEEE doubles  *)
(* is not modelled.                                                        *)
(*                                                                         *)
(* A Python value that may be None is a sequence of length at most one:    *)
(* None is <<>> and a value v is <<v>>.  RGBA components count tenths,     *)
(* friction components count 1e-4.  A rotation about z is the number of    *)
(* quarter turns (pi/2) it makes.  Python index [k] is TLA+ index [k+1].   *)
(***************************************************************************)
EXTENDS Integers, Sequences, FiniteSets, TLC

VARIABLES
    pc,         \* "call": the constructor is about to run; "done": it returned
    cls,        \* the class being instantiated: "Bin" or "MugTree"
    args,       \* the arguments of the constructor call
    self,       \* the attributes of the object
    obj_args,   \* what _get_geom_attrs returned and CompositeObject.__init__ received
    sites,      \* the <site> elements appended to the object's root element
    materials   \* the materials appended with append_material

vars == <<pc, cls, args, self, obj_args, sites, materials>>

----------------------------------------------------------------------------
(* Bounds of the input sets *)

\* bin_size components and wall_thickness range over 5 mm .. 5*MaxDim mm
MaxDim == 3
\* MugTree size components and branch_height range over 5 mm .. 5*MaxMugDim mm
MaxMugDim == 2

----------------------------------------------------------------------------
(* Values *)

None == <<>>
Some(v) == <<v>>

\* x millimetres, in quarter-millimetres
Mm(x) == 4 * x

\* x / 2 of the source: exact on every value the model reaches
Half(x) == x \div 2

Grid(n) == {Mm(5 * k) : k \in 1..n}
Vec3(S) == {<<x, y, z>> : x \in S, y \in S, z \in S}

\* Bin.__init__ defaults
BinDefaultName == "bin"
BinDefaultSize == <<Mm(50), Mm(50), Mm(120)>>
BinDefaultWallThickness == Mm(10)
BinDefaultDensity == 1000
DefaultRgba == <<2, 1, 0, 10>>

\* MugTree.__init__ defaults
MugTreeDefaultBaseSize == <<Mm(160), Mm(160), Mm(30)>>
MugTreeDefaultBranchHeight == Mm(120)
MugTreeDefaultBranchSize == <<Mm(80), Mm(5), Mm(15)>>
MugTreeDefaultTreeSize == <<Mm(30), Mm(30), Mm(160)>>
MugTreeDefaultDensity == 5000

\* a friction 3-array, (1, 0.005, 0.0001)
SomeFriction == <<10000, 50, 1>>

\* The constructor calls the model makes
BinArgs ==
    [name : {BinDefaultName},
     bin_size : Vec3(Grid(MaxDim)) \cup {BinDefaultSize},
     wall_thickness : Grid(MaxDim) \cup {BinDefaultWallThickness, Mm(30)},
     transparent_walls : BOOLEAN,
     friction : {None, Some(SomeFriction)},
     density : {BinDefaultDensity},
     use_texture : BOOLEAN,
     rgba : {None, Some(DefaultRgba)}]

MugTreeArgs ==
    [name : {"mug_tree"},
     base_size : Vec3(Grid(MaxMugDim)) \cup {MugTreeDefaultBaseSize},
     branch_height : Grid(MaxMugDim) \cup {MugTreeDefaultBranchHeight},
     branch_size : Vec3(Grid(MaxMugDim)) \cup {MugTreeDefaultBranchSize},
     tree_size : Vec3(Grid(MaxMugDim)) \cup {MugTreeDefaultTreeSize},
     friction : {None, Some(SomeFriction)},
     density : {MugTreeDefaultDensity},
     use_texture : BOOLEAN,
     rgba : {None, Some(DefaultRgba)}]

\* robosuite's add_to_dict appends one value per key; the model keeps the
\* parallel lists as one list of records
add_to_dict(dic, geom) == Append(dic, geom)

----------------------------------------------------------------------------
(* Bin *)

\* the attributes Bin.__init__ sets before it calls super().__init__
Bin_attrs(a) ==
    [_name |-> a.name,
     bin_size |-> a.bin_size,
     wall_thickness |-> a.wall_thickness,
     transparent_walls |-> a.transparent_walls,
     friction |-> a.friction,
     density |-> a.density,
     use_texture |-> a.use_texture,
     rgba |-> a.rgba,
     bin_mat_name |-> "light_wood_mat",
     _base_geom |-> "base",
     _important_sites |-> <<>>]

Bin_base_args(s) ==
    [total_size |-> <<Half(s.bin_size[1]), Half(s.bin_size[2]), Half(s.bin_size[3])>>,
     name |-> s._name,
     locations_relative_to_center |-> TRUE,
     obj_types |-> "all",
     density |-> s.density]

\* faulty variant: the base inset by a whole wall thickness on each side
Bin_base_geom_full_inset(s) ==
    [geom_types |-> "box",
     geom_locations |-> <<0, 0, Half(-(s.bin_size[3] - s.wall_thickness))>>,
     geom_quats |-> 0,
     geom_sizes |-> <<Half(s.bin_size[1] - 2 * s.wall_thickness),
                      Half(s.bin_size[2] - 2 * s.wall_thickness),
                      Half(s.wall_thickness - 0)>>,
     geom_names |-> s._base_geom,
     geom_rgbas |-> IF s.use_texture THEN None ELSE s.rgba,
     geom_materials |-> IF s.use_texture THEN Some(s.bin_mat_name) ELSE None,
     geom_frictions |-> s.friction]

Bin_base_geom(s) ==
    [geom_types |-> "box",
     geom_locations |-> <<0, 0, Half(-(s.bin_size[3] - s.wall_thickness))>>,
     geom_quats |-> 0,
     geom_sizes |-> <<Half(s.bin_size[1] - s.wall_thickness),
                      Half(s.bin_size[2] - s.wall_thickness),
                      Half(s.wall_thickness - 0)>>,
     geom_names |-> s._base_geom,
     geom_rgbas |-> IF s.use_texture THEN None ELSE s.rgba,
     geom_materials |-> IF s.use_texture THEN Some(s.bin_mat_name) ELSE None,
     geom_frictions |-> s.friction]

Bin_x_vals(s) ==
    <<0,
      Half(-(s.bin_size[1] - s.wall_thickness)),
      0,
      Half(s.bin_size[1] - s.wall_thickness)>>

Bin_y_vals(s) ==
    <<Half(-(s.bin_size[2] - s.wall_thickness)),
      0,
      Half(s.bin_size[2] - s.wall_thickness),
      0>>

\* faulty variant: each wall spans only the gap between its two neighbours
Bin_w_vals_between_walls(s) ==
    <<s.bin_size[1] - 2 * s.wall_thickness, s.bin_size[2] - 2 * s.wall_thickness,
      s.bin_size[1] - 2 * s.wall_thickness, s.bin_size[2] - 2 * s.wall_thickness>>

Bin_w_vals(s) == <<s.bin_size[1], s.bin_size[2], s.bin_size[1], s.bin_size[2]>>

\* pi/2, 0, -pi/2, pi
Bin_r_vals == <<1, 0, -1, 2>>

\* faulty variant: use_texture takes precedence over transparent_walls
Bin_wall_rgba_texture_first(s) ==
    IF s.use_texture
    THEN None
    ELSE IF s.transparent_walls THEN Some(<<10, 10, 10, 3>>) ELSE s.rgba

Bin_wall_rgba(s) ==
    IF s.transparent_walls
    THEN Some(<<10, 10, 10, 3>>)
    ELSE IF s.use_texture THEN None ELSE s.rgba

\* faulty variant: transparent walls keep the material
Bin_wall_mat_kept(s) ==
    IF s.use_texture THEN Some(s.bin_mat_name) ELSE None

Bin_wall_mat(s) ==
    IF s.transparent_walls
    THEN None
    ELSE IF s.use_texture THEN Some(s.bin_mat_name) ELSE None

\* the body of the loop over the walls, for Python index i
Bin_wall_geom(s, i) ==
    [geom_types |-> "box",
     geom_locations |-> <<Bin_x_vals(s)[i + 1], Bin_y_vals(s)[i + 1], 0>>,
     geom_quats |-> Bin_r_vals[i + 1],
     geom_sizes |-> <<Half(s.wall_thickness),
                      Half(Bin_w_vals(s)[i + 1]),
                      Half(s.bin_size[3])>>,
     geom_names |-> "wall" \o ToString(i),
     geom_rgbas |-> Bin_wall_rgba(s),
     geom_materials |-> Bin_wall_mat(s),
     geom_frictions |-> s.friction]

RECURSIVE Bin_walls_loop(_, _, _)
Bin_walls_loop(s, dic, i) ==
    IF i = 4 THEN dic
    ELSE Bin_walls_loop(s, add_to_dict(dic, Bin_wall_geom(s, i)), i + 1)

Bin_get_geom_attrs(s) ==
    [geoms |-> Bin_walls_loop(s, add_to_dict(<<>>, Bin_base_geom(s)), 0)]
        @@ Bin_base_args(s)

\* faulty variant: the region inset by one wall thickness in all, not one on each side
Bin_add_contain_region_site_one_wall(s) ==
    [name |-> s._name \o "_contain_region",
     type |-> "box",
     pos |-> <<0, 0, Half(s.wall_thickness)>>,
     quat |-> 0,
     size |-> <<Half(s.bin_size[1] - s.wall_thickness),
                Half(s.bin_size[2] - s.wall_thickness),
                Half(s.bin_size[3] - s.wall_thickness)>>,
     rgba |-> <<8, 0, 0, 0>>,
     group |-> 0]

Bin_add_contain_region_site(s) ==
    [name |-> s._name \o "_contain_region",
     type |-> "box",
     pos |-> <<0, 0, Half(s.wall_thickness)>>,
     quat |-> 0,
     size |-> <<Half(s.bin_size[1] - 2 * s.wall_thickness),
                Half(s.bin_size[2] - 2 * s.wall_thickness),
                Half(s.bin_size[3] - s.wall_thickness)>>,
     rgba |-> <<8, 0, 0, 0>>,
     group |-> 0]

\* the attributes Bin.__init__ sets after the site and the material
Bin_category(s) ==
    [category_name |-> "bin",
     rotation |-> Some(<<0, 0>>),
     rotation_axis |-> "x",
     object_properties |-> [vis_site_names |-> <<>>]] @@ s

\* Bin.__init__: no statement of it raises or returns early
Bin_init ==
    /\ pc = "call"
    /\ cls = "Bin"
    /\ LET s == Bin_attrs(args) IN
        /\ obj_args' = Bin_get_geom_attrs(s)
        /\ sites' = Append(sites, Bin_add_contain_region_site(s))
        /\ materials' = Append(materials, s.bin_mat_name)
        /\ self' = Bin_category(s)
    /\ pc' = "done"
    /\ UNCHANGED <<cls, args>>

----------------------------------------------------------------------------
(* MugTree *)

\* the attributes MugTree.__init__ sets before it calls super().__init__
MugTree_attrs(a) ==
    [_name |-> a.name,
     base_size |-> a.base_size,
     branch_height |-> a.branch_height,
     branch_size |-> a.branch_size,
     tree_size |-> a.tree_size,
     friction |-> a.friction,
     density |-> a.density,
     use_texture |-> a.use_texture,
     rgba |-> a.rgba,
     bin_mat_name |-> "light_wood_mat",
     _base_geom |-> "base",
     _important_sites |-> <<>>]

\* faulty variant: the overall half-extent is that of the base alone
MugTree_base_args_base_only(s) ==
    [total_size |-> <<Half(s.base_size[1]), Half(s.base_size[2]), Half(s.base_size[3])>>,
     name |-> s._name,
     locations_relative_to_center |-> TRUE,
     obj_types |-> "all",
     density |-> s.density]

MugTree_base_args(s) ==
    [total_size |-> <<Half(s.base_size[1] + 0),
                      Half(s.base_size[2] + 0),
                      Half(s.base_size[3] + s.tree_size[3])>>,
     name |-> s._name,
     locations_relative_to_center |-> TRUE,
     obj_types |-> "all",
     density |-> s.density]

MugTree_base_geom(s) ==
    [geom_types |-> "box",
     geom_locations |-> <<0, 0,
                          Half(s.base_size[3]) - Half(s.tree_size[3] + s.base_size[3])>>,
     geom_quats |-> 0,
     geom_sizes |-> <<Half(s.base_size[1]), Half(s.base_size[2]), Half(s.base_size[3])>>,
     geom_names |-> s._base_geom,
     geom_rgbas |-> IF s.use_texture THEN None ELSE s.rgba,
     geom_materials |-> IF s.use_texture THEN Some(s.bin_mat_name) ELSE None,
     geom_frictions |-> s.friction]

\* faulty variant: the post centred without the height of the base under it
MugTree_tree_geom_no_base(s) ==
    [geom_types |-> "box",
     geom_locations |-> <<0, 0,
                          Half(s.tree_size[3]) - Half(s.tree_size[3] + s.base_size[3])>>,
     geom_quats |-> 0,
     geom_sizes |-> <<Half(s.tree_size[1]), Half(s.tree_size[2]), Half(s.tree_size[3])>>,
     geom_names |-> "tree",
     geom_rgbas |-> IF s.use_texture THEN None ELSE s.rgba,
     geom_materials |-> IF s.use_texture THEN Some(s.bin_mat_name) ELSE None,
     geom_frictions |-> s.friction]

MugTree_tree_geom(s) ==
    [geom_types |-> "box",
     geom_locations |-> <<0, 0,
                          s.base_size[3] + Half(s.tree_size[3])
                              - Half(s.tree_size[3] + s.base_size[3])>>,
     geom_quats |-> 0,
     geom_sizes |-> <<Half(s.tree_size[1]), Half(s.tree_size[2]), Half(s.tree_size[3])>>,
     geom_names |-> "tree",
     geom_rgbas |-> IF s.use_texture THEN None ELSE s.rgba,
     geom_materials |-> IF s.use_texture THEN Some(s.bin_mat_name) ELSE None,
     geom_frictions |-> s.friction]

MugTree_branches_geom(s) ==
    [geom_types |-> "box",
     geom_locations |-> <<Half(s.tree_size[1]) + Half(s.branch_size[1]),
                          0,
                          s.base_size[3] + s.branch_height
                              - Half(s.tree_size[3] + s.base_size[3])>>,
     geom_quats |-> 0,
     geom_sizes |-> <<Half(s.branch_size[1]),
                      Half(s.branch_size[2]),
                      Half(s.branch_size[3])>>,
     geom_names |-> "branches",
     geom_rgbas |-> IF s.use_texture THEN None ELSE s.rgba,
     geom_materials |-> IF s.use_texture THEN Some(s.bin_mat_name) ELSE None,
     geom_frictions |-> s.friction]

MugTree_get_geom_attrs(s) ==
    [geoms |-> add_to_dict(add_to_dict(add_to_dict(<<>>,
                   MugTree_base_geom(s)),
                   MugTree_tree_geom(s)),
                   MugTree_branches_geom(s))]
        @@ MugTree_base_args(s)

\* faulty variant: the factor 0.5 left out
MugTree_hang_size_z_whole(s) == Half(s.tree_size[3])

\* tree_size[2] / 2 * 0.5
MugTree_hang_size_z(s) == Half(Half(s.tree_size[3]))

\* faulty variant: the region centred on the branch, not hung below it
MugTree_add_hang_region_site_centred(s) ==
    [name |-> s._name \o "_hang_region",
     type |-> "box",
     pos |-> <<Half(s.tree_size[1]) + Half(s.branch_size[1]),
               0,
               s.base_size[3] + s.branch_height
                   - Half(s.tree_size[3] + s.base_size[3])>>,
     quat |-> 0,
     size |-> <<Half(s.branch_size[1]),
                Half(s.branch_size[1]),
                MugTree_hang_size_z(s)>>,
     rgba |-> <<0, 8, 0, 3>>,
     group |-> 0]

MugTree_add_hang_region_site(s) ==
    [name |-> s._name \o "_hang_region",
     type |-> "box",
     pos |-> <<Half(s.tree_size[1]) + Half(s.branch_size[1]),
               0,
               s.base_size[3] + s.branch_height
                   - Half(s.tree_size[3] + s.base_size[3])
                   - MugTree_hang_size_z(s)>>,
     quat |-> 0,
     size |-> <<Half(s.branch_size[1]),
                Half(s.branch_size[1]),
                MugTree_hang_size_z(s)>>,
     rgba |-> <<0, 8, 0, 3>>,
     group |-> 0]

\* the attributes MugTree.__init__ sets after the site and the material
MugTree_category(s) ==
    [category_name |-> "mug_tree",
     rotation |-> None,
     rotation_axis |-> "x",
     object_properties |-> [vis_site_names |-> <<>>]] @@ s

\* MugTree.__init__: no statement of it raises or returns early
MugTree_init ==
    /\ pc = "call"
    /\ cls = "MugTree"
    /\ LET s == MugTree_attrs(args) IN
        /\ obj_args' = MugTree_get_geom_attrs(s)
        /\ sites' = Append(sites, MugTree_add_hang_region_site(s))
        /\ materials' = Append(materials, s.bin_mat_name)
        /\ self' = MugTree_category(s)
    /\ pc' = "done"
    /\ UNCHANGED <<cls, args>>

----------------------------------------------------------------------------

\* before the constructor has run there is no object
NoObjArgs == [geoms |-> <<>>]

Init ==
    /\ pc = "call"
    /\ \/ cls = "Bin" /\ args \in BinArgs
       \/ cls = "MugTree" /\ args \in MugTreeArgs
    /\ self = <<>>
    /\ obj_args = NoObjArgs
    /\ sites = <<>>
    /\ materials = <<>>

Next == Bin_init \/ MugTree_init

Spec == Init /\ [][Next]_vars

----------------------------------------------------------------------------
(* The constructed object, as the properties below read it *)

Done(c) == pc = "done" /\ cls = c

Min(a, b) == IF a <= b THEN a ELSE b
Max(a, b) == IF a >= b THEN a ELSE b

Geoms == obj_args.geoms
Geom(n) == CHOOSE g \in {Geoms[k] : k \in 1..Len(Geoms)} : g.geom_names = n
Site == sites[1]

\* half-extents of a primitive along the axes of the local frame: an odd
\* number of quarter turns about z exchanges x and y
RotHalf(g) ==
    IF g.geom_quats % 2 = 0
    THEN g.geom_sizes
    ELSE <<g.geom_sizes[2], g.geom_sizes[1], g.geom_sizes[3]>>
Lo(g, i) == g.geom_locations[i] - RotHalf(g)[i]
Hi(g, i) == g.geom_locations[i] + RotHalf(g)[i]

\* the length of the intersection of two boxes along axis i
InterLen(g, h, i) == Min(Hi(g, i), Hi(h, i)) - Max(Lo(g, i), Lo(h, i))
\* two boxes share a region of positive volume
Overlap(g, h) == \A i \in 1..3 : InterLen(g, h, i) > 0
\* a box lies within [-t[i], +t[i]] on every axis
Within(g, t) == \A i \in 1..3 : -t[i] <= Lo(g, i) /\ Hi(g, i) <= t[i]

IsSet(v) == v # None

\* all extents positive and the wall thinner than each bin extent
ValidBin ==
    /\ self.wall_thickness > 0
    /\ \A i \in 1..3 : self.bin_size[i] > 0 /\ self.wall_thickness < self.bin_size[i]

\* all extents positive, the post no wider than the base, the branch no
\* higher than the post
ValidMugTree ==
    /\ \A i \in 1..3 : self.base_size[i] > 0 /\ self.tree_size[i] > 0
                         /\ self.branch_size[i] > 0
    /\ self.tree_size[1] <= self.base_size[1]
    /\ self.tree_size[2] <= self.base_size[2]
    /\ 0 < self.branch_height /\ self.branch_height <= self.tree_size[3]

IsDefaultBin ==
    self.bin_size = BinDefaultSize /\ self.wall_thickness = BinDefaultWallThickness

IsDefaultMugTree ==
    /\ self.base_size = MugTreeDefaultBaseSize
    /\ self.tree_size = MugTreeDefaultTreeSize
    /\ self.branch_height = MugTreeDefaultBranchHeight

----------------------------------------------------------------------------
(* C1 *)

\* C1: a Bin call whose wall_thickness is at least min(bin_size.x,
\* bin_size.y) / 2 is rejected: the constructor never completes and no
\* geoms, site or material of such a Bin exist.
C1_Rejected ==
    (cls = "Bin"
        /\ 2 * args.wall_thickness >= Min(args.bin_size[1], args.bin_size[2]))
    => /\ pc # "done"
       /\ Geoms = <<>>
       /\ sites = <<>>
       /\ materials = <<>>

----------------------------------------------------------------------------
(* C2 *)

\* C2 as stated: for every valid Bin each contain-region half-extent is
\* non-negative and strictly less than the bin half-extent minus the wall
\* thickness.
C2_Original ==
    (Done("Bin") /\ ValidBin) =>
        \A i \in 1..3 :
            /\ Site.size[i] >= 0
            /\ Site.size[i] < Half(self.bin_size[i]) - self.wall_thickness

\* C2: for every valid Bin the contain-region half-extents on x and y equal
\* (are not strictly less than) the bin half-extent minus the wall
\* thickness, and are non-negative exactly when the wall is at most half
\* that bin extent; the half-extent on z is (bin_size.z - wall_thickness)/2,
\* which is positive, strictly less than the bin half-extent, and greater
\* than the bin half-extent minus the wall thickness.
C2_ContainRegion ==
    (Done("Bin") /\ ValidBin) =>
        /\ \A i \in 1..2 :
            /\ Site.size[i] = Half(self.bin_size[i]) - self.wall_thickness
            /\ Site.size[i] >= 0 <=> 2 * self.wall_thickness <= self.bin_size[i]
        /\ 2 * Site.size[3] = self.bin_size[3] - self.wall_thickness
        /\ Site.size[3] > 0
        /\ Site.size[3] < Half(self.bin_size[3])
        /\ Site.size[3] > Half(self.bin_size[3]) - self.wall_thickness

C2_Witness ==
    /\ Done("Bin") /\ ValidBin /\ IsDefaultBin
    /\ Site.size = <<Mm(15), Mm(15), Mm(55)>>

----------------------------------------------------------------------------
(* C3 *)

\* C3 as stated: for every valid Bin no two of base, wall0..wall3 share a
\* region of positive volume.
C3_Original ==
    (Done("Bin") /\ ValidBin) =>
        \A j, k \in 1..Len(Geoms) : j < k => ~Overlap(Geoms[j], Geoms[k])

\* C3: for every valid Bin the primitives do overlap: each pair of adjacent
\* walls shares a corner column of wall_thickness x wall_thickness over the
\* full bin height, the base shares a region of positive volume with every
\* wall, and only opposite walls can be disjoint, which they are exactly
\* when twice the wall thickness is at most the bin extent between them.
C3_Overlaps ==
    (Done("Bin") /\ ValidBin) =>
        LET wall(i) == Geom("wall" \o ToString(i))
            wt == self.wall_thickness
        IN  /\ \A i \in 0..3 :
                /\ InterLen(wall(i), wall((i + 1) % 4), 1) = wt
                /\ InterLen(wall(i), wall((i + 1) % 4), 2) = wt
                /\ InterLen(wall(i), wall((i + 1) % 4), 3) = self.bin_size[3]
                /\ Overlap(Geom("base"), wall(i))
            /\ Overlap(wall(0), wall(2)) <=> 2 * wt > self.bin_size[2]
            /\ Overlap(wall(1), wall(3)) <=> 2 * wt > self.bin_size[1]

C3_Witness ==
    /\ Done("Bin") /\ ValidBin /\ IsDefaultBin
    /\ Overlap(Geom("wall0"), Geom("wall1"))
    /\ ~Overlap(Geom("wall0"), Geom("wall2"))

----------------------------------------------------------------------------
(* C4 *)

\* C4 as stated: the base half-extents are ((bin_size.x - 2 wt)/2,
\* (bin_size.y - 2 wt)/2, wt/2), so (0.015, 0.015, 0.005) for the defaults.
C4_Original ==
    Done("Bin") =>
        /\ Geom("base").geom_sizes =
              <<Half(self.bin_size[1] - 2 * self.wall_thickness),
                Half(self.bin_size[2] - 2 * self.wall_thickness),
                Half(self.wall_thickness)>>
        /\ IsDefaultBin => Geom("base").geom_sizes = <<Mm(15), Mm(15), Mm(5)>>

\* C4: the base is inset from the outer footprint by half a wall thickness
\* on each x/y side, so that its side faces lie in the mid-planes of the
\* walls (at the walls' centres): its half-extents are ((bin_size.x -
\* wt)/2, (bin_size.y - wt)/2, wt/2), so (0.02, 0.02, 0.005) for the
\* defaults.
C4_BaseInset ==
    Done("Bin") =>
        /\ 2 * Geom("base").geom_sizes[1] = self.bin_size[1] - self.wall_thickness
        /\ 2 * Geom("base").geom_sizes[2] = self.bin_size[2] - self.wall_thickness
        /\ 2 * Geom("base").geom_sizes[3] = self.wall_thickness
        /\ Hi(Geom("base"), 1) = Geom("wall3").geom_locations[1]
        /\ Lo(Geom("base"), 1) = Geom("wall1").geom_locations[1]
        /\ Hi(Geom("base"), 2) = Geom("wall2").geom_locations[2]
        /\ Lo(Geom("base"), 2) = Geom("wall0").geom_locations[2]
        /\ IsDefaultBin => Geom("base").geom_sizes = <<Mm(20), Mm(20), Mm(5)>>

C4_Witness ==
    /\ Done("Bin") /\ IsDefaultBin
    /\ Geom("base").geom_sizes = <<Mm(20), Mm(20), Mm(5)>>

----------------------------------------------------------------------------
(* C5 *)

\* C5: in every MugTree the top face of the base is the bottom face of the
\* tree post, and the -x face of the branch is the +x face of the post.
C5_Stacked ==
    Done("MugTree") =>
        /\ Geom("base").geom_locations[3] + Half(self.base_size[3])
              = Geom("tree").geom_locations[3] - Half(self.tree_size[3])
        /\ Geom("branches").geom_locations[1] - Half(self.branch_size[1])
              = Geom("tree").geom_locations[1] + Half(self.tree_size[1])

C5_Witness ==
    /\ Done("MugTree")
    /\ self.base_size[3] # self.tree_size[3]
    /\ self.branch_size[1] # self.tree_size[1]
    /\ Hi(Geom("base"), 3) = Lo(Geom("tree"), 3)
    /\ Lo(Geom("branches"), 1) = Hi(Geom("tree"), 1)

----------------------------------------------------------------------------
(* C6 *)

\* C6: in every MugTree the top face of the hang-region site (its z
\* position plus its z half-extent) is at the z position of the branch
\* primitive, and the site's x position is the branch's x position.
C6_HangTop ==
    Done("MugTree") =>
        /\ Site.pos[3] + Site.size[3] = Geom("branches").geom_locations[3]
        /\ Site.pos[1] = Geom("branches").geom_locations[1]

C6_Witness ==
    /\ Done("MugTree")
    /\ self.branch_height # MugTreeDefaultBranchHeight
    /\ self.tree_size # MugTreeDefaultTreeSize
    /\ Site.size[3] > 0
    /\ Site.pos[3] + Site.size[3] = Geom("branches").geom_locations[3]

----------------------------------------------------------------------------
(* C7 *)

\* C7 as stated: with the default base_size, tree_size and branch_height
\* the branch is at z = 0.055, the hang region's z half-extent is 0.04, its
\* top face is at z = 0.055 and its bottom face at z = 0.015.
C7_Original ==
    (Done("MugTree") /\ IsDefaultMugTree) =>
        /\ Geom("branches").geom_locations[3] = Mm(55)
        /\ Site.size[3] = Mm(40)
        /\ Site.pos[3] + Site.size[3] = Mm(55)
        /\ Site.pos[3] - Site.size[3] = Mm(15)

\* C7: with the default base_size, tree_size and branch_height the branch
\* is at z = 0.055, the hang region's z half-extent is 0.04, its top face is
\* at z = 0.055, its centre at z = 0.015 and its bottom face at z = -0.025.
C7_HangExample ==
    (Done("MugTree") /\ IsDefaultMugTree) =>
        /\ Geom("branches").geom_locations[3] = Mm(55)
        /\ Site.size[3] = Mm(40)
        /\ Site.pos[3] + Site.size[3] = Mm(55)
        /\ Site.pos[3] = Mm(15)
        /\ Site.pos[3] - Site.size[3] = -Mm(25)

C7_Witness ==
    /\ Done("MugTree") /\ IsDefaultMugTree
    /\ self.branch_size = MugTreeDefaultBranchSize
    /\ Site.pos[3] = Mm(15)

----------------------------------------------------------------------------
(* C8 *)

\* C8 as stated: on every primitive of a Bin or a MugTree exactly one of
\* material and RGBA is set, for every use_texture, transparent_walls and
\* rgba (a 4-vector or None).
C8_Original ==
    pc = "done" =>
        \A k \in 1..Len(Geoms) :
            IsSet(Geoms[k].geom_materials) # IsSet(Geoms[k].geom_rgbas)

\* the walls of a Bin built with transparent_walls
IsTransparentWall(g) ==
    cls = "Bin" /\ self.transparent_walls /\ g.geom_names # self._base_geom

\* C8: on every primitive of a Bin or a MugTree at most one of material and
\* RGBA is set, never both; neither is set exactly when use_texture is
\* false, rgba is None and the primitive is not a wall of a Bin with
\* transparent_walls; otherwise exactly one is set.
C8_Appearance ==
    pc = "done" =>
        \A k \in 1..Len(Geoms) :
            LET g == Geoms[k] IN
            /\ ~(IsSet(g.geom_materials) /\ IsSet(g.geom_rgbas))
            /\ (~IsSet(g.geom_materials) /\ ~IsSet(g.geom_rgbas))
                 <=> (~self.use_texture /\ self.rgba = None
                        /\ ~IsTransparentWall(g))

C8_Witness ==
    /\ Done("Bin")
    /\ ~self.use_texture /\ self.rgba = None /\ self.transparent_walls
    /\ ~IsSet(Geom("base").geom_materials) /\ ~IsSet(Geom("base").geom_rgbas)
    /\ IsSet(Geom("wall0").geom_rgbas)

----------------------------------------------------------------------------
(* C9 *)

\* what the same parameters produce with transparent_walls = False
OpaqueGeoms == Bin_get_geom_attrs([self EXCEPT !.transparent_walls = FALSE]).geoms

\* C9: in a Bin built with transparent_walls every wall has the RGBA
\* (1.0, 1.0, 1.0, 0.3) and no material, whatever use_texture and rgba are,
\* and the base primitive, and the type, position, orientation,
\* half-extents, name and friction of every primitive, are what the same
\* parameters produce without transparent_walls.
C9_TransparentWalls ==
    (Done("Bin") /\ self.transparent_walls) =>
        /\ Len(Geoms) = Len(OpaqueGeoms)
        /\ Geoms[1] = OpaqueGeoms[1]
        /\ Geoms[1].geom_names = self._base_geom
        /\ \A k \in 2..Len(Geoms) :
            /\ Geoms[k].geom_rgbas = Some(<<10, 10, 10, 3>>)
            /\ Geoms[k].geom_materials = None
            /\ [Geoms[k] EXCEPT !.geom_rgbas = None, !.geom_materials = None]
                 = [OpaqueGeoms[k] EXCEPT !.geom_rgbas = None, !.geom_materials = None]

C9_Witness ==
    /\ Done("Bin") /\ self.transparent_walls /\ self.use_texture
    /\ Geom("wall3").geom_rgbas = Some(<<10, 10, 10, 3>>)
    /\ IsSet(Geom("base").geom_materials)

----------------------------------------------------------------------------
(* C10 *)

\* C10 as stated: for every valid parameter set every primitive of a Bin
\* and of a MugTree lies within [-total_size[i], +total_size[i]] on each
\* axis.
C10_Original ==
    /\ (Done("Bin") /\ ValidBin) =>
          \A k \in 1..Len(Geoms) : Within(Geoms[k], obj_args.total_size)
    /\ (Done("MugTree") /\ ValidMugTree) =>
          \A k \in 1..Len(Geoms) : Within(Geoms[k], obj_args.total_size)

\* C10: for every valid parameter set every primitive of a Bin, and the
\* base and the tree post of a MugTree, lie within [-total_size[i],
\* +total_size[i]] on each axis; the branch of a MugTree need not: its +x
\* face is at tree_size.x/2 + branch_size.x, which is within total_size.x
\* exactly when tree_size.x + 2 branch_size.x <= base_size.x (not so for the
\* defaults, where the face is at 0.095 and total_size.x is 0.08).
C10_BoundingBox ==
    /\ (Done("Bin") /\ ValidBin) =>
          \A k \in 1..Len(Geoms) : Within(Geoms[k], obj_args.total_size)
    /\ (Done("MugTree") /\ ValidMugTree) =>
          /\ Within(Geom("base"), obj_args.total_size)
          /\ Within(Geom("tree"), obj_args.total_size)
          /\ Hi(Geom("branches"), 1) = Half(self.tree_size[1]) + self.branch_size[1]
          /\ Hi(Geom("branches"), 1) <= obj_args.total_size[1]
               <=> self.tree_size[1] + 2 * self.branch_size[1] <= self.base_size[1]
          /\ (IsDefaultMugTree /\ self.branch_size = MugTreeDefaultBranchSize) =>
               /\ Hi(Geom("branches"), 1) = Mm(95)
               /\ obj_args.total_size[1] = Mm(80)

C10_Witness ==
    /\ Done("MugTree") /\ ValidMugTree /\ IsDefaultMugTree
    /\ self.branch_size = MugTreeDefaultBranchSize
    /\ Within(Geom("tree"), obj_args.total_size)
    /\ ~Within(Geom("branches"), obj_args.total_size)

====
